---------------------------- MODULE Spec2Model ----------------------------
(***************************************************************************)
(* Model of the NetCheck diagnostic run (netcheck-app/src-tauri):          *)
(* run_diagnostic in lib.rs drives check_dns, then check_tcp_timing,       *)
(* check_routing and check_stability under tokio timeouts, emits progress  *)
(* events, and hands the four optional results to analyze_results          *)
(* (diagnostic.rs).  Times are integer milliseconds.                       *)
(***************************************************************************)
EXTENDS Integers, Sequences, FiniteSets, TLC

\* ------------------------------------------------------------------------
\* Option<T>
\* ------------------------------------------------------------------------
None == [some |-> FALSE]
Some(v) == [some |-> TRUE, val |-> v]

\* ------------------------------------------------------------------------
\* Sequence helpers
\* ------------------------------------------------------------------------
RECURSIVE SumSeq(_)
SumSeq(s) == IF s = <<>> THEN 0 ELSE Head(s) + SumSeq(Tail(s))

Max2(a, b) == IF a >= b THEN a ELSE b

StartsWith(s, p) ==
    /\ Len(s) >= Len(p)
    /\ SubSeq(s, 1, Len(p)) = p

\* ------------------------------------------------------------------------
\* Strings that the code inspects character by character are sequences of
\* one-character strings.
\* ------------------------------------------------------------------------
HttpPrefix == <<"h", "t", "t", "p">>
HttpScheme == <<"h", "t", "t", "p", ":", "/", "/">>
HttpsScheme == <<"h", "t", "t", "p", "s", ":", "/", "/">>

HostEnd == {"/", "?", "#", ":"}

\* Url::parse(..).host_str() for an http(s) URL: the characters after the
\* scheme up to the first delimiter; an empty host is a parse error.
RECURSIVE TakeHost(_)
TakeHost(s) ==
    IF s = <<>> \/ Head(s) \in HostEnd THEN <<>>
    ELSE <<Head(s)>> \o TakeHost(Tail(s))

UrlHost(u) ==
    IF StartsWith(u, HttpsScheme) THEN TakeHost(SubSeq(u, Len(HttpsScheme) + 1, Len(u)))
    ELSE IF StartsWith(u, HttpScheme) THEN TakeHost(SubSeq(u, Len(HttpScheme) + 1, Len(u)))
    ELSE <<>>

\* diagnostic.rs parse_domain: Ok(host) or Err
parse_domain(url_str) ==
    LET url == IF StartsWith(url_str, HttpScheme) \/ StartsWith(url_str, HttpsScheme)
               THEN url_str
               ELSE HttpsScheme \o url_str
        host == UrlHost(url)
    IN  IF host = <<>> THEN [ok |-> FALSE] ELSE [ok |-> TRUE, val |-> host]

\* lib.rs run_diagnostic: the url handed to the transport probe
request_url(target_url) ==
    IF StartsWith(target_url, HttpPrefix) THEN target_url
    ELSE HttpsScheme \o target_url

\* ------------------------------------------------------------------------
\* analyze_results (diagnostic.rs)
\* ------------------------------------------------------------------------
Issue(c, s, t) == [category |-> c, severity |-> s, title |-> t]

RecCdn == "cdn_good_sign"
RecAllGood == "no_problem_detected"
RecDns == "change_dns_server"
RecWifi == "check_wifi_use_lan"
RecEscalate == "use_vpn_or_contact_isp"

\* each stage yields the issues it pushes, the recommendations it pushes
\* and the amount it subtracts from the score
Stage(i, r, d) == [issues |-> i, recs |-> r, minus |-> d]
NoStage == Stage(<<>>, <<>>, 0)

\* variant: the slow-lookup rule is a second if, not an else-if
AnalyzeDns_NoElse(dns) ==
    IF ~dns.some THEN NoStage
    ELSE LET d == dns.val
             recs == IF d.using_cdn.some THEN <<RecCdn>> ELSE <<>>
             c1 == IF d.resolved_ips = <<>>
                   THEN Stage(<<Issue("Dns", "Error", "dns_unresolved")>>, <<>>, 50)
                   ELSE NoStage
             c2 == IF d.lookup_time_ms > 200
                   THEN Stage(<<Issue("Dns", "Warning", "dns_slow")>>, <<>>, 10)
                   ELSE NoStage
         IN  Stage(c1.issues \o c2.issues, recs, c1.minus + c2.minus)

AnalyzeDns(dns) ==
    IF ~dns.some THEN NoStage
    ELSE LET d == dns.val
             recs == IF d.using_cdn.some THEN <<RecCdn>> ELSE <<>>
         IN  IF d.resolved_ips = <<>>
             THEN Stage(<<Issue("Dns", "Error", "dns_unresolved")>>, recs, 50)
             ELSE IF d.lookup_time_ms > 200
             THEN Stage(<<Issue("Dns", "Warning", "dns_slow")>>, recs, 10)
             ELSE Stage(<<>>, recs, 0)

\* variant: the silent 1000ms penalty is a second if, not an else-if
AnalyzeTcp_TotalBoth(tcp) ==
    IF ~tcp.some THEN NoStage
    ELSE LET t == tcp.val
             connect_only == t.connect_time_ms - t.dns_time_ms
             ssl_only == t.ssl_time_ms - t.connect_time_ms
             c1 == IF connect_only > 500
                   THEN Stage(<<Issue("Tcp", "Warning", "tcp_connect_slow")>>, <<>>, 15)
                   ELSE NoStage
             c2 == IF ssl_only > 500
                   THEN Stage(<<Issue("Ssl", "Warning", "ssl_handshake_slow")>>, <<>>, 10)
                   ELSE NoStage
             c3 == Stage(IF t.total_time_ms > 3000
                         THEN <<Issue("Http", "Warning", "total_time_slow")>> ELSE <<>>,
                         <<>>,
                         (IF t.total_time_ms > 3000 THEN 15 ELSE 0)
                           + (IF t.total_time_ms > 1000 THEN 5 ELSE 0))
             c4 == IF t.http_code >= 400 /\ t.http_code < 500
                   THEN Stage(<<Issue("Http", "Warning", "http_error_4xx")>>, <<>>, 0)
                   ELSE IF t.http_code >= 500
                   THEN Stage(<<Issue("Http", "Error", "http_error_5xx")>>, <<>>, 20)
                   ELSE NoStage
         IN  IF t.http_code = 0
             THEN Stage(<<Issue("Tcp", "Error", "tcp_no_connection")>>, <<>>, 50)
             ELSE Stage(c1.issues \o c2.issues \o c3.issues \o c4.issues, <<>>,
                        c1.minus + c2.minus + c3.minus + c4.minus)

\* variant: the timing sub-checks also run when the response code is 0
AnalyzeTcp_NoShortCircuit(tcp) ==
    IF ~tcp.some THEN NoStage
    ELSE LET t == tcp.val
             connect_only == t.connect_time_ms - t.dns_time_ms
             ssl_only == t.ssl_time_ms - t.connect_time_ms
             c0 == IF t.http_code = 0
                   THEN Stage(<<Issue("Tcp", "Error", "tcp_no_connection")>>, <<>>, 50)
                   ELSE NoStage
             c1 == IF connect_only > 500
                   THEN Stage(<<Issue("Tcp", "Warning", "tcp_connect_slow")>>, <<>>, 15)
                   ELSE NoStage
             c2 == IF ssl_only > 500
                   THEN Stage(<<Issue("Ssl", "Warning", "ssl_handshake_slow")>>, <<>>, 10)
                   ELSE NoStage
             c3 == IF t.total_time_ms > 3000
                   THEN Stage(<<Issue("Http", "Warning", "total_time_slow")>>, <<>>, 15)
                   ELSE IF t.total_time_ms > 1000
                   THEN Stage(<<>>, <<>>, 5)
                   ELSE NoStage
             c4 == IF t.http_code >= 400 /\ t.http_code < 500
                   THEN Stage(<<Issue("Http", "Warning", "http_error_4xx")>>, <<>>, 0)
                   ELSE IF t.http_code >= 500
                   THEN Stage(<<Issue("Http", "Error", "http_error_5xx")>>, <<>>, 20)
                   ELSE NoStage
         IN  Stage(c0.issues \o c1.issues \o c2.issues \o c3.issues \o c4.issues, <<>>,
                   c0.minus + c1.minus + c2.minus + c3.minus + c4.minus)

\* variant: a connection-only time of exactly 500ms counts as slow
AnalyzeTcp_ConnectGe(tcp) ==
    IF ~tcp.some THEN NoStage
    ELSE LET t == tcp.val
             connect_only == t.connect_time_ms - t.dns_time_ms
             ssl_only == t.ssl_time_ms - t.connect_time_ms
             c1 == IF connect_only >= 500
                   THEN Stage(<<Issue("Tcp", "Warning", "tcp_connect_slow")>>, <<>>, 15)
                   ELSE NoStage
             c2 == IF ssl_only > 500
                   THEN Stage(<<Issue("Ssl", "Warning", "ssl_handshake_slow")>>, <<>>, 10)
                   ELSE NoStage
             c3 == IF t.total_time_ms > 3000
                   THEN Stage(<<Issue("Http", "Warning", "total_time_slow")>>, <<>>, 15)
                   ELSE IF t.total_time_ms > 1000
                   THEN Stage(<<>>, <<>>, 5)
                   ELSE NoStage
             c4 == IF t.http_code >= 400 /\ t.http_code < 500
                   THEN Stage(<<Issue("Http", "Warning", "http_error_4xx")>>, <<>>, 0)
                   ELSE IF t.http_code >= 500
                   THEN Stage(<<Issue("Http", "Error", "http_error_5xx")>>, <<>>, 20)
                   ELSE NoStage
         IN  IF t.http_code = 0
             THEN Stage(<<Issue("Tcp", "Error", "tcp_no_connection")>>, <<>>, 50)
             ELSE Stage(c1.issues \o c2.issues \o c3.issues \o c4.issues, <<>>,
                        c1.minus + c2.minus + c3.minus + c4.minus)

\* variant: a total time of exactly 1000ms gets the silent penalty
AnalyzeTcp_TotalGe(tcp) ==
    IF ~tcp.some THEN NoStage
    ELSE LET t == tcp.val
             connect_only == t.connect_time_ms - t.dns_time_ms
             ssl_only == t.ssl_time_ms - t.connect_time_ms
             c1 == IF connect_only > 500
                   THEN Stage(<<Issue("Tcp", "Warning", "tcp_connect_slow")>>, <<>>, 15)
                   ELSE NoStage
             c2 == IF ssl_only > 500
                   THEN Stage(<<Issue("Ssl", "Warning", "ssl_handshake_slow")>>, <<>>, 10)
                   ELSE NoStage
             c3 == IF t.total_time_ms > 3000
                   THEN Stage(<<Issue("Http", "Warning", "total_time_slow")>>, <<>>, 15)
                   ELSE IF t.total_time_ms >= 1000
                   THEN Stage(<<>>, <<>>, 5)
                   ELSE NoStage
             c4 == IF t.http_code >= 400 /\ t.http_code < 500
                   THEN Stage(<<Issue("Http", "Warning", "http_error_4xx")>>, <<>>, 0)
                   ELSE IF t.http_code >= 500
                   THEN Stage(<<Issue("Http", "Error", "http_error_5xx")>>, <<>>, 20)
                   ELSE NoStage
         IN  IF t.http_code = 0
             THEN Stage(<<Issue("Tcp", "Error", "tcp_no_connection")>>, <<>>, 50)
             ELSE Stage(c1.issues \o c2.issues \o c3.issues \o c4.issues, <<>>,
                        c1.minus + c2.minus + c3.minus + c4.minus)

\* variant: a 4xx response code also deducts from the score
AnalyzeTcp_4xxDeducts(tcp) ==
    IF ~tcp.some THEN NoStage
    ELSE LET t == tcp.val
             connect_only == t.connect_time_ms - t.dns_time_ms
             ssl_only == t.ssl_time_ms - t.connect_time_ms
             c1 == IF connect_only > 500
                   THEN Stage(<<Issue("Tcp", "Warning", "tcp_connect_slow")>>, <<>>, 15)
                   ELSE NoStage
             c2 == IF ssl_only > 500
                   THEN Stage(<<Issue("Ssl", "Warning", "ssl_handshake_slow")>>, <<>>, 10)
                   ELSE NoStage
             c3 == IF t.total_time_ms > 3000
                   THEN Stage(<<Issue("Http", "Warning", "total_time_slow")>>, <<>>, 15)
                   ELSE IF t.total_time_ms > 1000
                   THEN Stage(<<>>, <<>>, 5)
                   ELSE NoStage
             c4 == IF t.http_code >= 400 /\ t.http_code < 500
                   THEN Stage(<<Issue("Http", "Warning", "http_error_4xx")>>, <<>>, 10)
                   ELSE IF t.http_code >= 500
                   THEN Stage(<<Issue("Http", "Error", "http_error_5xx")>>, <<>>, 20)
                   ELSE NoStage
         IN  IF t.http_code = 0
             THEN Stage(<<Issue("Tcp", "Error", "tcp_no_connection")>>, <<>>, 50)
             ELSE Stage(c1.issues \o c2.issues \o c3.issues \o c4.issues, <<>>,
                        c1.minus + c2.minus + c3.minus + c4.minus)

AnalyzeTcp(tcp) ==
    IF ~tcp.some THEN NoStage
    ELSE LET t == tcp.val
             connect_only == t.connect_time_ms - t.dns_time_ms
             ssl_only == t.ssl_time_ms - t.connect_time_ms
             c1 == IF connect_only > 500
                   THEN Stage(<<Issue("Tcp", "Warning", "tcp_connect_slow")>>, <<>>, 15)
                   ELSE NoStage
             c2 == IF ssl_only > 500
                   THEN Stage(<<Issue("Ssl", "Warning", "ssl_handshake_slow")>>, <<>>, 10)
                   ELSE NoStage
             c3 == IF t.total_time_ms > 3000
                   THEN Stage(<<Issue("Http", "Warning", "total_time_slow")>>, <<>>, 15)
                   ELSE IF t.total_time_ms > 1000
                   THEN Stage(<<>>, <<>>, 5)
                   ELSE NoStage
             c4 == IF t.http_code >= 400 /\ t.http_code < 500
                   THEN Stage(<<Issue("Http", "Warning", "http_error_4xx")>>, <<>>, 0)
                   ELSE IF t.http_code >= 500
                   THEN Stage(<<Issue("Http", "Error", "http_error_5xx")>>, <<>>, 20)
                   ELSE NoStage
         IN  IF t.http_code = 0
             THEN Stage(<<Issue("Tcp", "Error", "tcp_no_connection")>>, <<>>, 50)
             ELSE Stage(c1.issues \o c2.issues \o c3.issues \o c4.issues, <<>>,
                        c1.minus + c2.minus + c3.minus + c4.minus)

\* hops.iter().filter(|h| h.ip_address == "*").count()
FailedHops(hops) == Cardinality({k \in 1..Len(hops) : hops[k].ip_address = "*"})

\* variant: a fraction of exactly pct counts as above
FailedHopsAbove_Ge(hops, pct) ==
    FailedHops(hops) * 100 >= pct * Max2(Len(hops), 1)

\* failed_hops / max(1, len) * 100 > pct, without fractions
FailedHopsAbove(hops, pct) ==
    FailedHops(hops) * 100 > pct * Max2(Len(hops), 1)

AnalyzeRouting(routing) ==
    IF ~routing.some THEN NoStage
    ELSE LET r == routing.val
             c1 == IF FailedHopsAbove(r.hops, 30)
                   THEN Stage(<<Issue("Routing", "Warning", "hops_unresponsive")>>, <<>>, 0)
                   ELSE NoStage
             c2 == IF r.total_hops > 20
                   THEN Stage(<<Issue("Routing", "Info", "many_hops")>>, <<>>, 5)
                   ELSE NoStage
         IN  Stage(c1.issues \o c2.issues, <<>>, c1.minus + c2.minus)

\* variant: a rate below 80 gets the Error and the Warning
AnalyzeStability_BothRates(stability) ==
    IF ~stability.some THEN NoStage
    ELSE LET s == stability.val
             c0 == IF s.success_rate < 80
                   THEN Stage(<<Issue("Stability", "Error", "connection_unstable")>>, <<>>, 30)
                   ELSE NoStage
             c1 == IF s.success_rate < 100
                   THEN Stage(c0.issues \o <<Issue("Stability", "Warning", "packet_loss")>>,
                              <<>>, c0.minus + 10)
                   ELSE NoStage
             c2 == IF s.jitter_ms > 100
                   THEN Stage(<<Issue("Stability", "Warning", "jitter_high")>>, <<>>, 5)
                   ELSE NoStage
         IN  Stage(c1.issues \o c2.issues, <<>>, c1.minus + c2.minus)

AnalyzeStability(stability) ==
    IF ~stability.some THEN NoStage
    ELSE LET s == stability.val
             c1 == IF s.success_rate < 100
                   THEN IF s.success_rate < 80
                        THEN Stage(<<Issue("Stability", "Error", "connection_unstable")>>, <<>>, 30)
                        ELSE Stage(<<Issue("Stability", "Warning", "packet_loss")>>, <<>>, 10)
                   ELSE NoStage
             c2 == IF s.jitter_ms > 100
                   THEN Stage(<<Issue("Stability", "Warning", "jitter_high")>>, <<>>, 5)
                   ELSE NoStage
         IN  Stage(c1.issues \o c2.issues, <<>>, c1.minus + c2.minus)

HasCategory(issues, c) == \E k \in 1..Len(issues) : issues[k].category = c

\* variant: the escalation recommendation is added below 25 only
SummaryRecommendations_Below25(issues, score) ==
    IF issues = <<>> THEN <<RecAllGood>>
    ELSE (IF HasCategory(issues, "Dns") THEN <<RecDns>> ELSE <<>>)
         \o (IF HasCategory(issues, "Tcp") \/ HasCategory(issues, "Stability")
             THEN <<RecWifi>> ELSE <<>>)
         \o (IF score < 25 THEN <<RecEscalate>> ELSE <<>>)

\* variant: the escalation recommendation is added at score 50 as well
SummaryRecommendations_Le50(issues, score) ==
    IF issues = <<>> THEN <<RecAllGood>>
    ELSE (IF HasCategory(issues, "Dns") THEN <<RecDns>> ELSE <<>>)
         \o (IF HasCategory(issues, "Tcp") \/ HasCategory(issues, "Stability")
             THEN <<RecWifi>> ELSE <<>>)
         \o (IF score <= 50 THEN <<RecEscalate>> ELSE <<>>)

SummaryRecommendations(issues, score) ==
    IF issues = <<>> THEN <<RecAllGood>>
    ELSE (IF HasCategory(issues, "Dns") THEN <<RecDns>> ELSE <<>>)
         \o (IF HasCategory(issues, "Tcp") \/ HasCategory(issues, "Stability")
             THEN <<RecWifi>> ELSE <<>>)
         \o (IF score < 50 THEN <<RecEscalate>> ELSE <<>>)

\* variant: the thresholds are exclusive
StatusOfScore_Strict(score) ==
    IF score > 90 THEN "Excellent"
    ELSE IF score > 75 THEN "Good"
    ELSE IF score > 50 THEN "Acceptable"
    ELSE IF score > 25 THEN "Poor"
    ELSE "Failed"

StatusOfScore(score) ==
    IF score >= 90 THEN "Excellent"
    ELSE IF score >= 75 THEN "Good"
    ELSE IF score >= 50 THEN "Acceptable"
    ELSE IF score >= 25 THEN "Poor"
    ELSE "Failed"

analyze_results(dns, tcp, routing, stability) ==
    LET d == AnalyzeDns(dns)
        t == AnalyzeTcp(tcp)
        r == AnalyzeRouting(routing)
        s == AnalyzeStability(stability)
        issues == d.issues \o t.issues \o r.issues \o s.issues
        score == 100 - d.minus - t.minus - r.minus - s.minus
    IN  [issues |-> issues,
         recommendations |-> d.recs \o SummaryRecommendations(issues, score),
         overall_status |-> StatusOfScore(score),
         score |-> score]

\* ------------------------------------------------------------------------
\* Program constants
\* ------------------------------------------------------------------------
DNS_TIMEOUT_MS == 10000
PHASE2_TIMEOUT_MS == 30000
NUM_TESTS == 10
SLEEP_MS == 100

\* ------------------------------------------------------------------------
\* Steps, probes and statuses
\* ------------------------------------------------------------------------
Steps == {"dns", "tcp", "ssl", "http", "routing", "stability"}
Probes == {"dns", "tcp", "routing", "stability"}
Phase2 == {"tcp", "routing", "stability"}

\* "idle": future not created; "created": handed to join!, not polled yet;
\* "running": polled, the probe is executing; the rest are the three
\* results of timeout(..).await
Settled == {"value", "failure", "timeout"}
Terminal == {"Success", "Warning", "Error"}

Event(step, status) == [step |-> step, status |-> status]

\* ------------------------------------------------------------------------
\* Inputs: the target string and what the external commands do
\* ------------------------------------------------------------------------
Targets ==
    { <<"h", "t", "t", "p", "s", ":", "/", "/", "a", ".", "i", "o">>,
      <<"a", ".", "i", "o">>,
      <<"h", "t", "t", "p", "b", ".", "i", "n">>,
      <<>>,
      <<"h", "t", "t", "p", ":", "/", "/">> }

Ip1 == "1.1.1.1"
Ip2 == "1.0.0.1"

\* a call of an external command: it returns a value or an error after ms
\* milliseconds of blocking the calling thread, or it never returns
Value(v, ms) == [kind |-> "value", val |-> v, ms |-> ms]
Failure(ms) == [kind |-> "failure", ms |-> ms]
Hang == [kind |-> "hang"]

DnsRes(ips, lookup, cdn) ==
    [resolved_ips |-> ips, lookup_time_ms |-> lookup, using_cdn |-> cdn]

DnsCalls ==
    { Value(DnsRes(<<Ip1, Ip2>>, 50, Some("Cloudflare")), 300),
      Value(DnsRes(<<Ip1>>, 250, None), 600),
      Value(DnsRes(<<Ip1>>, 11000, None), 12000),
      Value(DnsRes(<<>>, 15000, None), 45000),
      Failure(5),
      Hang }

TcpRes(dns, connect, ssl, ttfb, total, code) ==
    [dns_time_ms |-> dns, connect_time_ms |-> connect, ssl_time_ms |-> ssl,
     ttfb_ms |-> ttfb, total_time_ms |-> total, http_code |-> code]

TcpCalls ==
    { Value(TcpRes(20, 60, 150, 300, 400, 200), 400),
      Value(TcpRes(20, 60, 700, 3500, 4000, 200), 4000),
      Value(TcpRes(20, 700, 0, 800, 900, 404), 900),
      Value(TcpRes(0, 0, 0, 0, 10000, 0), 10000),
      Value(TcpRes(20, 60, 150, 30000, 30500, 200), 30500),
      Failure(5),
      Hang }

Hop(ip) == [ip_address |-> ip]

RoutingRes(hops) == [hops |-> hops, total_hops |-> Len(hops)]

RoutingCalls ==
    { Value(RoutingRes(<<Hop(Ip2), Hop(Ip2), Hop(Ip1)>>), 3000),
      Value(RoutingRes(<<Hop(Ip2), Hop("*"), Hop("*")>>), 15000),
      Value(RoutingRes(<<Hop(Ip2), Hop("*"), Hop(Ip1), Hop("*"), Hop(Ip1)>>), 31000),
      Value(RoutingRes(<<>>), 100),
      Failure(5),
      Hang }

\* one curl request of the stability loop: 2xx/3xx or not, and how long
\* (an answer, a refused connection, a connect timeout)
SampleOutcomes ==
    { [ok |-> TRUE, ms |-> 200], [ok |-> FALSE, ms |-> 50],
      [ok |-> FALSE, ms |-> 5000] }

\* ------------------------------------------------------------------------
\* check_stability (diagnostic.rs): the result built after the loop
\* ------------------------------------------------------------------------
RECURSIVE MinSeq(_)
MinSeq(s) ==
    IF Len(s) = 1 THEN Head(s)
    ELSE LET m == MinSeq(Tail(s)) IN IF Head(s) <= m THEN Head(s) ELSE m

RECURSIVE MaxSeq(_)
MaxSeq(s) ==
    IF Len(s) = 1 THEN Head(s)
    ELSE LET m == MaxSeq(Tail(s)) IN IF Head(s) >= m THEN Head(s) ELSE m

Abs(x) == IF x >= 0 THEN x ELSE -x

RECURSIVE SumAbsDev(_, _)
SumAbsDev(s, avg) ==
    IF s = <<>> THEN 0 ELSE Abs(Head(s) - avg) + SumAbsDev(Tail(s), avg)

\* variant: without the is_empty guard the initial values of the folds
\* (f64::INFINITY, f64::NEG_INFINITY, here +-10^9) are what is returned
StabilityRes_NoEmptyGuard(num_tests, successful, times) ==
    LET avg == SumSeq(times) \div Len(times)
    IN  [total_tests |-> num_tests,
         successful_tests |-> successful,
         success_rate |-> (successful * 100) \div num_tests,
         min_time_ms |-> IF times # <<>> THEN MinSeq(times) ELSE 1000000000,
         avg_time_ms |-> IF times # <<>> THEN avg ELSE 0,
         max_time_ms |-> IF times # <<>> THEN MaxSeq(times) ELSE 0 - 1000000000,
         jitter_ms |-> IF times # <<>> THEN SumAbsDev(times, avg) \div Len(times) ELSE 0]

StabilityRes(num_tests, successful, times) ==
    LET avg == SumSeq(times) \div Len(times)
    IN  [total_tests |-> num_tests,
         successful_tests |-> successful,
         success_rate |-> (successful * 100) \div num_tests,
         min_time_ms |-> IF times # <<>> THEN MinSeq(times) ELSE 0,
         avg_time_ms |-> IF times # <<>> THEN avg ELSE 0,
         max_time_ms |-> IF times # <<>> THEN MaxSeq(times) ELSE 0,
         jitter_ms |-> IF times # <<>> THEN SumAbsDev(times, avg) \div Len(times) ELSE 0]

\* ------------------------------------------------------------------------
\* State
\* ------------------------------------------------------------------------
VARIABLES
    target,      \* target_url argument of run_diagnostic
    envDns,      \* what the dig calls of check_dns do
    envTcp,      \* what the curl call of check_tcp_timing does
    envRouting,  \* what the traceroute call of check_routing does
    pc,          \* "init", "dns", "join", "done", "error"
    now,         \* wall clock, ms
    st,          \* per probe: "idle", "created", "running" or its result kind
    val,         \* per probe: the Ok(Ok(value)) of its timeout(..).await
    started,     \* per probe: time of the first poll of its future
    deadline,    \* per probe: deadline of its timeout
    finished,    \* per probe: time at which its future completed
    stab,        \* locals of the check_stability loop
    events,      \* progress events emitted so far
    domain,      \* let domain
    url,         \* let url
    target_ip,   \* let target_ip
    slot,        \* dns_result, tcp_result, routing_result, stability_result
    writes,      \* per slot: how many times its let binding was assigned
    result       \* what run_diagnostic returned

vars == <<target, envDns, envTcp, envRouting, pc, now, st, val, started,
          deadline, finished, stab, events, domain, url, target_ip, slot, writes,
          result>>

env == <<target, envDns, envTcp, envRouting>>

NoResult == [kind |-> "none"]

Init ==
    /\ target \in Targets
    /\ envDns \in DnsCalls
    /\ envTcp \in TcpCalls
    /\ envRouting \in RoutingCalls
    /\ pc = "init"
    /\ now = 0
    /\ st = [p \in Probes |-> "idle"]
    /\ val = [p \in Probes |-> None]
    /\ started = [p \in Probes |-> 0]
    /\ deadline = [p \in Probes |-> 0]
    /\ finished = [p \in Probes |-> 0]
    /\ stab = [i |-> 0, successful |-> 0, times |-> <<>>]
    /\ events = <<>>
    /\ domain = <<>>
    /\ url = <<>>
    /\ target_ip = ""
    /\ slot = [p \in Probes |-> None]
    /\ writes = [p \in Probes |-> 0]
    /\ result = NoResult

\* ------------------------------------------------------------------------
\* tokio::time::timeout: poll the wrapped future first, the timer second
\* ------------------------------------------------------------------------
timeout_poll(inner, t, dl) ==
    IF inner # "pending" THEN inner
    ELSE IF t >= dl THEN "timeout"
    ELSE "pending"

\* the probes whose body has no .await run to completion inside one poll:
\* when the poll returns the future is ready with the command's result
blocking_poll(call, t, dl) == timeout_poll(call.kind, t, dl)

\* ------------------------------------------------------------------------
\* The probes' return values
\* ------------------------------------------------------------------------
check_dns(d, call) ==
    [domain |-> d,
     resolved_ips |-> call.val.resolved_ips,
     lookup_time_ms |-> call.val.lookup_time_ms,
     using_cdn |-> call.val.using_cdn]

check_tcp_timing(u, call) == call.val

check_routing(d, ip, call) ==
    [target_ip |-> ip, hops |-> call.val.hops, total_hops |-> Len(call.val.hops)]

\* variant: the last resolved address is taken
TargetIp_Last(dns_result) ==
    IF dns_result.some /\ dns_result.val.resolved_ips # <<>>
    THEN dns_result.val.resolved_ips[Len(dns_result.val.resolved_ips)]
    ELSE ""

\* dns_result.and_then(|d| d.resolved_ips.first()).cloned().unwrap_or_default()
TargetIp(dns_result) ==
    IF dns_result.some /\ dns_result.val.resolved_ips # <<>>
    THEN Head(dns_result.val.resolved_ips)
    ELSE ""

\* ------------------------------------------------------------------------
\* The match arms of run_diagnostic: terminal progress status per result
\* ------------------------------------------------------------------------
\* variant: the "http" step is left out of the initial events
InitialEvents_NoHttp ==
    << Event("dns", "Running"), Event("tcp", "Pending"), Event("ssl", "Pending"),
       Event("routing", "Pending"), Event("stability", "Pending") >>

InitialEvents ==
    << Event("dns", "Running"), Event("tcp", "Pending"), Event("ssl", "Pending"),
       Event("http", "Pending"), Event("routing", "Pending"),
       Event("stability", "Pending") >>

Phase2RunningEvents ==
    << Event("tcp", "Running"), Event("routing", "Running"),
       Event("stability", "Running") >>

DnsStatus(kind, v) ==
    IF kind = "value"
    THEN IF v.val.resolved_ips = <<>> THEN "Error"
         ELSE IF v.val.lookup_time_ms > 200 THEN "Warning"
         ELSE "Success"
    ELSE "Error"

SslStatus(r) ==
    IF r.ssl_time_ms = 0 THEN "Error"
    ELSE IF r.ssl_time_ms - r.connect_time_ms > 500 THEN "Warning"
    ELSE "Success"

\* lib.rs 125-130: the ssl event of a transport result; its message is
\* "SSL handshake: <ssl_only>ms", kept here as the number it prints
SslEvent(r) ==
    [step |-> "ssl", status |-> SslStatus(r),
     shown_ms |-> r.ssl_time_ms - r.connect_time_ms]

HttpStatus(r) ==
    IF r.http_code >= 200 /\ r.http_code < 400 THEN "Success"
    ELSE IF r.http_code >= 400 THEN "Warning"
    ELSE "Error"

TcpStatus(r) == IF r.total_time_ms > 3000 THEN "Warning" ELSE "Success"

\* variant: without a transport result only the tcp step is closed
TcpEvents_TcpOnly(kind, v) ==
    IF kind = "value"
    THEN << SslEvent(v.val), Event("http", HttpStatus(v.val)),
            Event("tcp", TcpStatus(v.val)) >>
    ELSE << Event("tcp", "Error") >>

\* variant: the tcp step is closed twice when there is a transport result
TcpEvents_DoubleTerminal(kind, v) ==
    IF kind = "value"
    THEN << Event("tcp", "Success"),
            SslEvent(v.val), Event("http", HttpStatus(v.val)),
            Event("tcp", TcpStatus(v.val)) >>
    ELSE << Event("tcp", "Error"), Event("ssl", "Error"), Event("http", "Error") >>

TcpEvents(kind, v) ==
    IF kind = "value"
    THEN << SslEvent(v.val), Event("http", HttpStatus(v.val)),
            Event("tcp", TcpStatus(v.val)) >>
    ELSE << Event("tcp", "Error"), Event("ssl", "Error"), Event("http", "Error") >>

RoutingStatus(kind, v) ==
    IF kind = "value"
    THEN IF FailedHopsAbove(v.val.hops, 50) THEN "Warning" ELSE "Success"
    ELSE "Warning"

StabilityStatus(kind, v) ==
    IF kind = "value"
    THEN IF v.val.success_rate >= 100 THEN "Success"
         ELSE IF v.val.success_rate >= 80 THEN "Warning"
         ELSE "Error"
    ELSE "Warning"

\* variant: a failed or timed-out probe is recorded as a zero-valued result
\* (unwrap_or_default) instead of None
SlotOf_Default(kind, v) ==
    IF kind = "value" THEN v
    ELSE Some([domain |-> <<>>, resolved_ips |-> <<>>, lookup_time_ms |-> 0,
               using_cdn |-> None, dns_time_ms |-> 0, connect_time_ms |-> 0,
               ssl_time_ms |-> 0, ttfb_ms |-> 0, total_time_ms |-> 0,
               http_code |-> 0, target_ip |-> "", hops |-> <<>>, total_hops |-> 0,
               total_tests |-> 0, successful_tests |-> 0, success_rate |-> 0,
               min_time_ms |-> 0, avg_time_ms |-> 0, max_time_ms |-> 0,
               jitter_ms |-> 0])

\* Ok(Ok(result)) => Some(result); Ok(Err(e)) => None; Err(_) => None
SlotOf(kind, v) == IF kind = "value" THEN v ELSE None

\* variant: completes as soon as one branch has completed (select!)
JoinReady_Any(s) == \E p \in Phase2 : s[p] \in Settled

\* tokio::join! completes when every branch has completed
JoinReady(s) == \A p \in Phase2 : s[p] \in Settled

Report(u, sl) ==
    LET a == analyze_results(sl["dns"], sl["tcp"], sl["routing"], sl["stability"])
    IN  [target_url |-> u,
         dns |-> sl["dns"], tcp |-> sl["tcp"],
         routing |-> sl["routing"], stability |-> sl["stability"],
         overall_status |-> a.overall_status,
         issues |-> a.issues,
         recommendations |-> a.recommendations]

\* variant: one elapsed timeout discards every branch's result (try_join!)
JoinOutput_TryJoin(s, v) ==
    IF \E q \in Phase2 : s[q] = "timeout"
    THEN [p \in Phase2 |-> [kind |-> "timeout", v |-> None]]
    ELSE [p \in Phase2 |-> [kind |-> s[p], v |-> v[p]]]

\* the three results tokio::join! hands back, one per branch
JoinOutput(s, v) == [p \in Phase2 |-> [kind |-> s[p], v |-> v[p]]]

\* ------------------------------------------------------------------------
\* run_diagnostic, cut where the thread blocks in an external command
\* ------------------------------------------------------------------------

\* variant: the initial events are emitted before the target is parsed
Start_EmitFirst ==
    /\ pc = "init"
    /\ events' = events \o InitialEvents
    /\ LET d == parse_domain(target)
       IN  IF ~d.ok
           THEN /\ pc' = "error"
                /\ result' = [kind |-> "err"]
                /\ UNCHANGED <<st, started, deadline, domain, url>>
           ELSE /\ pc' = "dns"
                /\ domain' = d.val
                /\ url' = request_url(target)
                /\ st' = [st EXCEPT !["dns"] = "running"]
                /\ started' = [started EXCEPT !["dns"] = now]
                /\ deadline' = [deadline EXCEPT !["dns"] = now + DNS_TIMEOUT_MS]
                /\ UNCHANGED result
    /\ UNCHANGED <<env, now, val, finished, stab, target_ip, slot, writes>>

\* lib.rs 29-46: parse the target, emit the initial events, enter check_dns
Start ==
    /\ pc = "init"
    /\ LET d == parse_domain(target)
       IN  IF ~d.ok
           THEN /\ pc' = "error"
                /\ result' = [kind |-> "err"]
                /\ UNCHANGED <<st, started, deadline, events, domain, url>>
           ELSE /\ pc' = "dns"
                /\ domain' = d.val
                /\ url' = request_url(target)
                /\ events' = events \o InitialEvents
                /\ st' = [st EXCEPT !["dns"] = "running"]
                /\ started' = [started EXCEPT !["dns"] = now]
                /\ deadline' = [deadline EXCEPT !["dns"] = now + DNS_TIMEOUT_MS]
                /\ UNCHANGED result
    /\ UNCHANGED <<env, now, val, finished, stab, target_ip, slot, writes>>

\* variant: a failed resolution is propagated to the caller (check_dns(..)?)
DnsReturn_Abort ==
    /\ pc = "dns"
    /\ envDns.kind # "hang"
    /\ LET t == now + envDns.ms
           kind == blocking_poll(envDns, t, deadline["dns"])
           v == IF kind = "value" THEN Some(check_dns(domain, envDns)) ELSE None
           dns_result == SlotOf(kind, v)
       IN  /\ now' = t
           /\ val' = [val EXCEPT !["dns"] = v]
           /\ finished' = [finished EXCEPT !["dns"] = t]
           /\ slot' = [slot EXCEPT !["dns"] = dns_result]
           /\ writes' = [writes EXCEPT !["dns"] = @ + 1]
           /\ target_ip' = TargetIp(dns_result)
           /\ IF kind = "value"
              THEN /\ st' = [st EXCEPT !["dns"] = kind, !["tcp"] = "running",
                                  !["routing"] = "created", !["stability"] = "created"]
                   /\ events' = events \o <<Event("dns", DnsStatus(kind, v))>>
                                       \o Phase2RunningEvents
                   /\ started' = [started EXCEPT !["tcp"] = t]
                   /\ deadline' = [deadline EXCEPT !["tcp"] = t + PHASE2_TIMEOUT_MS]
                   /\ pc' = "join"
                   /\ UNCHANGED result
              ELSE /\ st' = [st EXCEPT !["dns"] = kind]
                   /\ events' = events \o <<Event("dns", DnsStatus(kind, v))>>
                   /\ pc' = "error"
                   /\ result' = [kind |-> "err"]
                   /\ UNCHANGED <<started, deadline>>
    /\ UNCHANGED <<env, stab, domain, url>>

\* lib.rs 46-112: check_dns returns; its arm runs; the Phase-2 futures are
\* created and join! polls the first one, which enters curl
DnsReturn ==
    /\ pc = "dns"
    /\ envDns.kind # "hang"
    /\ LET t == now + envDns.ms
           kind == blocking_poll(envDns, t, deadline["dns"])
           v == IF kind = "value" THEN Some(check_dns(domain, envDns)) ELSE None
           dns_result == SlotOf(kind, v)
       IN  /\ now' = t
           /\ st' = [st EXCEPT !["dns"] = kind, !["tcp"] = "running",
                               !["routing"] = "created", !["stability"] = "created"]
           /\ val' = [val EXCEPT !["dns"] = v]
           /\ finished' = [finished EXCEPT !["dns"] = t]
           /\ events' = events \o <<Event("dns", DnsStatus(kind, v))>>
                               \o Phase2RunningEvents
           /\ slot' = [slot EXCEPT !["dns"] = dns_result]
           /\ writes' = [writes EXCEPT !["dns"] = @ + 1]
           /\ target_ip' = TargetIp(dns_result)
           /\ started' = [started EXCEPT !["tcp"] = t]
           /\ deadline' = [deadline EXCEPT !["tcp"] = t + PHASE2_TIMEOUT_MS]
    /\ pc' = "join"
    /\ UNCHANGED <<env, stab, domain, url, result>>

\* the first poll of join!, continued: curl returns, tcp_future is ready,
\* routing_future is polled and enters traceroute
TcpReturn ==
    /\ pc = "join"
    /\ st["tcp"] = "running"
    /\ envTcp.kind # "hang"
    /\ LET t == now + envTcp.ms
           kind == blocking_poll(envTcp, t, deadline["tcp"])
           v == IF kind = "value" THEN Some(check_tcp_timing(url, envTcp)) ELSE None
       IN  /\ now' = t
           /\ st' = [st EXCEPT !["tcp"] = kind, !["routing"] = "running"]
           /\ val' = [val EXCEPT !["tcp"] = v]
           /\ finished' = [finished EXCEPT !["tcp"] = t]
           /\ started' = [started EXCEPT !["routing"] = t]
           /\ deadline' = [deadline EXCEPT !["routing"] = t + PHASE2_TIMEOUT_MS]
    /\ UNCHANGED <<env, pc, stab, events, domain, url, target_ip, slot, writes,
                   result>>

\* the first poll of join!, continued: traceroute returns, routing_future is
\* ready, stability_future is polled and enters its first curl
RoutingReturn ==
    /\ pc = "join"
    /\ st["routing"] = "running"
    /\ envRouting.kind # "hang"
    /\ LET t == now + envRouting.ms
           kind == blocking_poll(envRouting, t, deadline["routing"])
           v == IF kind = "value"
                THEN Some(check_routing(domain, target_ip, envRouting))
                ELSE None
       IN  /\ now' = t
           /\ st' = [st EXCEPT !["routing"] = kind, !["stability"] = "running"]
           /\ val' = [val EXCEPT !["routing"] = v]
           /\ finished' = [finished EXCEPT !["routing"] = t]
           /\ started' = [started EXCEPT !["stability"] = t]
           /\ deadline' = [deadline EXCEPT !["stability"] = t + PHASE2_TIMEOUT_MS]
    /\ stab' = [i |-> 0, successful |-> 0, times |-> <<>>]
    /\ UNCHANGED <<env, pc, events, domain, url, target_ip, slot, writes, result>>

\* diagnostic.rs 209-266: one iteration of the check_stability loop: curl
\* returns, then sleep(100ms).await, the only point where the timeout of
\* stability_future can be observed; after the last iteration the result
StabilitySample ==
    /\ pc = "join"
    /\ st["stability"] = "running"
    /\ \E o \in SampleOutcomes :
        LET t1 == now + o.ms
            dl == deadline["stability"]
            successful == stab.successful + (IF o.ok THEN 1 ELSE 0)
            times == IF o.ok THEN Append(stab.times, o.ms) ELSE stab.times
            i == stab.i + 1
            woken == IF dl < t1 + SLEEP_MS THEN Max2(t1, dl) ELSE t1 + SLEEP_MS
            inner == IF dl < t1 + SLEEP_MS THEN "pending"
                     ELSE IF i = NUM_TESTS THEN "value"
                     ELSE "continue"
            kind == timeout_poll(inner, woken, dl)
        IN  /\ now' = woken
            /\ stab' = [i |-> i, successful |-> successful, times |-> times]
            /\ IF kind = "continue"
               THEN UNCHANGED <<st, val, finished>>
               ELSE /\ st' = [st EXCEPT !["stability"] = kind]
                    /\ val' = [val EXCEPT !["stability"] =
                                 IF kind = "value"
                                 THEN Some(StabilityRes(NUM_TESTS, successful, times))
                                 ELSE None]
                    /\ finished' = [finished EXCEPT !["stability"] = woken]
    /\ UNCHANGED <<env, pc, started, deadline, events, domain, url, target_ip,
                   slot, writes, result>>

\* lib.rs 108-258: join! returns; the three results are matched, the
\* terminal events emitted, analyze_results called, the report returned
Finish ==
    /\ pc = "join"
    /\ JoinReady(st)
    /\ LET res == JoinOutput(st, val)
           sl == [p \in Probes |->
                    IF p \in Phase2 THEN SlotOf(res[p].kind, res[p].v) ELSE slot[p]]
       IN  /\ events' = events
                 \o TcpEvents(res["tcp"].kind, res["tcp"].v)
                 \o <<Event("routing", RoutingStatus(res["routing"].kind, res["routing"].v))>>
                 \o <<Event("stability",
                            StabilityStatus(res["stability"].kind, res["stability"].v))>>
           /\ slot' = sl
           /\ writes' = [p \in Probes |-> IF p \in Phase2 THEN writes[p] + 1 ELSE writes[p]]
           /\ result' = [kind |-> "ok", report |-> Report(url, sl)]
    /\ pc' = "done"
    /\ UNCHANGED <<env, now, st, val, started, deadline, finished, stab, domain,
                   url, target_ip>>

Next ==
    \/ Start
    \/ DnsReturn
    \/ TcpReturn
    \/ RoutingReturn
    \/ StabilitySample
    \/ Finish

Spec == Init /\ [][Next]_vars

\* the runtime keeps driving the task: every step that can be taken is taken
FairSpec == Init /\ [][Next]_vars /\ WF_vars(Next)

TypeOK ==
    /\ pc \in {"init", "dns", "join", "done", "error"}
    /\ \A p \in Probes : st[p] \in {"idle", "created", "running"} \cup Settled
    /\ result.kind \in {"none", "ok", "err"}

\* ------------------------------------------------------------------------
\* analyze_results on its own: the snapshot is drawn from the sets below
\* and handed to analyze_results once
\* ------------------------------------------------------------------------
HostAIo == <<"a", ".", "i", "o">>

SnapDns ==
    {None} \cup
    { Some([domain |-> HostAIo, resolved_ips |-> ips, lookup_time_ms |-> l,
            using_cdn |-> c]) :
        ips \in {<<>>, <<Ip1, Ip2>>}, l \in {50, 200, 201},
        c \in {None, Some("Cloudflare")} }

SnapTcp ==
    {None} \cup
    { Some(TcpRes(20, connect, connect + ssl_only, total, total, code)) :
        connect \in {520, 521}, ssl_only \in {0 - 520, 500, 501},
        total \in {1000, 1001, 3000, 3001, 4000}, code \in {0, 200, 399, 400, 404, 499, 500} }

SnapRouting ==
    {None} \cup
    { Some([target_ip |-> Ip1, hops |-> h, total_hops |-> n]) :
        h \in { <<>>, <<Hop(Ip2), Hop(Ip2), Hop(Ip1)>>,
                <<Hop(Ip2), Hop("*"), Hop(Ip1)>>,
                <<Hop(Ip2), Hop("*"), Hop(Ip2), Hop("*"), Hop(Ip2),
                  Hop("*"), Hop(Ip2), Hop(Ip2), Hop(Ip2), Hop(Ip1)>>,
                <<Hop("*"), Hop("*"), Hop("*")>> },
        n \in {3, 20, 21} }

SnapStability ==
    {None} \cup
    { Some([total_tests |-> 10, successful_tests |-> r \div 10, success_rate |-> r,
            min_time_ms |-> 200, avg_time_ms |-> 300, max_time_ms |-> 400,
            jitter_ms |-> j]) :
        r \in {0, 70, 80, 90, 100}, j \in {100, 101} }

InitAnalyze ==
    /\ target = <<>>
    /\ envDns = Hang
    /\ envTcp = Hang
    /\ envRouting = Hang
    /\ pc = "analyze"
    /\ now = 0
    /\ st = [p \in Probes |-> "idle"]
    /\ val = [p \in Probes |-> None]
    /\ started = [p \in Probes |-> 0]
    /\ deadline = [p \in Probes |-> 0]
    /\ finished = [p \in Probes |-> 0]
    /\ stab = [i |-> 0, successful |-> 0, times |-> <<>>]
    /\ events = <<>>
    /\ domain = <<>>
    /\ url = <<>>
    /\ target_ip = ""
    /\ \E d \in SnapDns, t \in SnapTcp, r \in SnapRouting, sb \in SnapStability :
         slot = [p \in Probes |->
                   CASE p = "dns" -> d
                     [] p = "tcp" -> t
                     [] p = "routing" -> r
                     [] p = "stability" -> sb]
    /\ writes = [p \in Probes |-> 1]
    /\ result = NoResult

\* diagnostic.rs 269-589: one call of analyze_results on the snapshot
Analyze ==
    /\ pc = "analyze"
    /\ result' = [kind |-> "analysis",
                  out |-> analyze_results(slot["dns"], slot["tcp"], slot["routing"],
                                          slot["stability"])]
    /\ pc' = "analyzed"
    /\ UNCHANGED <<env, now, st, val, started, deadline, finished, stab, events,
                   domain, url, target_ip, slot, writes>>

NextAnalyze == Analyze

AnalyzeSpec == InitAnalyze /\ [][NextAnalyze]_vars

\* ------------------------------------------------------------------------
\* Helpers for the properties
\* ------------------------------------------------------------------------
InSeq(x, s) == \E k \in 1..Len(s) : s[k] = x

HostnameOk == parse_domain(target).ok

Count(x, s) == Cardinality({k \in 1..Len(s) : s[k] = x})

\* the issues of a list whose category is in cats
IssuesIn(issues, cats) ==
    LET In(i) == i.category \in cats IN SelectSeq(issues, In)

Analyzed == pc = "analyzed"

\* the statuses emitted so far for one step, in order
RECURSIVE StepStatuses(_, _)
StepStatuses(evs, step) ==
    IF evs = <<>> THEN <<>>
    ELSE (IF Head(evs).step = step THEN <<Head(evs).status>> ELSE <<>>)
         \o StepStatuses(Tail(evs), step)

LastStatus(step) ==
    LET ss == StepStatuses(events, step) IN ss[Len(ss)]

TimeoutOf(p) == IF p = "dns" THEN DNS_TIMEOUT_MS ELSE PHASE2_TIMEOUT_MS

FailureSeverity(p) == IF p \in {"dns", "tcp"} THEN "Error" ELSE "Warning"

ReportField(p) ==
    CASE p = "dns" -> result.report.dns
      [] p = "tcp" -> result.report.tcp
      [] p = "routing" -> result.report.routing
      [] p = "stability" -> result.report.stability

\* ------------------------------------------------------------------------
\* C1: when all four probe outcomes are absent, the report has overall
\* status Failed, a non-empty issue list and the escalation recommendation.
\* ------------------------------------------------------------------------
C1_AllAbsentIsFailed ==
    (result.kind = "ok" /\ \A p \in Probes : ~ReportField(p).some)
    => /\ result.report.overall_status = "Failed"
       /\ result.report.issues # <<>>
       /\ InSeq(RecEscalate, result.report.recommendations)

\* ------------------------------------------------------------------------
\* C2: once hostname extraction has succeeded run_diagnostic never returns
\* an error; a probe that failed or timed out only leaves its report field
\* absent, a probe that produced a value has that value in the report.
\* ------------------------------------------------------------------------
C2_ReturnsReport ==
    /\ HostnameOk => (pc # "error" /\ result.kind # "err")
    /\ (HostnameOk /\ st["dns"] \in Settled) => pc \in {"join", "done"}
    /\ pc = "done" =>
         /\ result.kind = "ok"
         /\ \A p \in Probes :
              /\ st[p] \in {"failure", "timeout"} => ~ReportField(p).some
              /\ st[p] = "value" => ReportField(p) = val[p]

C2_Witness ==
    /\ pc = "done"
    /\ result.kind = "ok"
    /\ st["dns"] = "failure"
    /\ st["tcp"] = "value"
    /\ st["routing"] = "failure"
    /\ st["stability"] = "timeout"

\* ------------------------------------------------------------------------
\* C3: if hostname extraction fails, run_diagnostic returns an error before
\* any probe is started and before any progress event is emitted.
\* ------------------------------------------------------------------------
C3_ErrorBeforeProbing ==
    ~HostnameOk =>
        /\ pc \in {"init", "error"}
        /\ pc = "error" => result.kind = "err"
        /\ events = <<>>
        /\ \A p \in Probes : st[p] = "idle"

C3_Witness == ~HostnameOk /\ pc = "error" /\ result.kind = "err"

\* ------------------------------------------------------------------------
\* C4 as stated: before the resolution probe is started a Pending event has
\* been emitted for every one of the six steps.
\* ------------------------------------------------------------------------
C4_PendingForAllSix ==
    st["dns"] # "idle" => \A s \in Steps : InSeq(Event(s, "Pending"), events)

\* C4 amended: before the resolution probe is started one event has been
\* emitted for each of the six steps: Running for dns, Pending for the
\* other five; these are the first six events of the run.
C4_InitialEventPerStep ==
    st["dns"] # "idle" =>
        /\ Len(events) >= 6
        /\ {events[k] : k \in 1..6}
             = {Event("dns", "Running")}
               \cup {Event(s, "Pending") : s \in Steps \ {"dns"}}

C4_Witness == pc = "dns" /\ st["dns"] = "running" /\ Len(events) = 6

\* ------------------------------------------------------------------------
\* C5: no Phase-2 future exists before the resolution probe has settled;
\* once it has settled, with a value or without, run_diagnostic is in Phase
\* 2 with all three futures handed to join!, and in a finished run each of
\* them ran after resolution settled.
\* ------------------------------------------------------------------------
C5_PhaseOrder ==
    /\ \A p \in Phase2 : st[p] # "idle" => st["dns"] \in Settled
    /\ st["dns"] \in Settled =>
         /\ pc \in {"join", "done"}
         /\ \A p \in Phase2 : st[p] # "idle"
    /\ pc = "done" =>
         \A p \in Phase2 : st[p] \in Settled /\ started[p] >= finished["dns"]

C5_Witness ==
    /\ pc = "done"
    /\ st["dns"] = "failure"
    /\ \A p \in Phase2 : st[p] \in Settled

\* ------------------------------------------------------------------------
\* C6: the report exists only when resolution and the three Phase-2 probes
\* have all settled, and what analysis read is the settled outcome of each.
\* ------------------------------------------------------------------------
C6_AnalysisAfterSettled ==
    result.kind = "ok" =>
        /\ \A p \in Probes : st[p] \in Settled
        /\ \A p \in Probes : ReportField(p) = SlotOf(st[p], val[p])
        /\ result.report.issues =
             analyze_results(SlotOf(st["dns"], val["dns"]), SlotOf(st["tcp"], val["tcp"]),
                             SlotOf(st["routing"], val["routing"]),
                             SlotOf(st["stability"], val["stability"])).issues

C6_Witness ==
    /\ result.kind = "ok"
    /\ \A p \in Probes : st[p] = "value"
    /\ finished["stability"] > finished["routing"]

\* ------------------------------------------------------------------------
\* C7: the Phase-2 probes do not block one another: no probe is waiting to
\* be started while a sibling is in progress.
\* ------------------------------------------------------------------------
C7_NoWaitingForSibling ==
    \A p, q \in Phase2 : ~(st[q] = "running" /\ st[p] = "created")

\* ------------------------------------------------------------------------
\* C8: every Phase-2 probe has its own deadline, set when it is started;
\* when a probe's timeout has fired, or its 30s have passed while it ran,
\* the transport and path outcomes of its siblings in the report are still
\* what their own commands returned.
\* ------------------------------------------------------------------------
OwnOutcome(p) ==
    CASE p = "tcp" ->
           IF envTcp.kind = "value" THEN Some(check_tcp_timing(url, envTcp)) ELSE None
      [] p = "routing" ->
           IF envRouting.kind = "value"
           THEN Some(check_routing(domain, target_ip, envRouting)) ELSE None

C8_IndependentTimeouts ==
    /\ \A p \in Phase2 :
         st[p] \notin {"idle", "created"} => deadline[p] = started[p] + PHASE2_TIMEOUT_MS
    /\ \A p \in Phase2 :
         (pc = "done"
            /\ (st[p] = "timeout" \/ finished[p] - started[p] > PHASE2_TIMEOUT_MS)) =>
             \A q \in {"tcp", "routing"} \ {p} : ReportField(q) = OwnOutcome(q)

C8_Witness ==
    /\ pc = "done"
    /\ st["stability"] = "timeout"
    /\ ReportField("tcp").some
    /\ ReportField("routing").some

\* ------------------------------------------------------------------------
\* C9: a probe that returned an error, or that was still running when its
\* bounded wait (10s for dns, 30s for the others) elapsed, is recorded as
\* absent, and the last status of its step is Error for dns and tcp and
\* Warning for routing and stability.
\* ------------------------------------------------------------------------
C9_AbsentOnFailureOrTimeout ==
    pc = "done" =>
        \A p \in Probes :
            (st[p] = "failure" \/ finished[p] - started[p] > TimeoutOf(p)) =>
                /\ ~slot[p].some
                /\ LastStatus(p) = FailureSeverity(p)

\* ------------------------------------------------------------------------
\* C10: every run whose hostname extraction succeeded eventually returns a
\* report, even when a probe never returns on its own.
\* ------------------------------------------------------------------------
C10_EventuallyReturns == HostnameOk ~> (pc = "done")

\* ------------------------------------------------------------------------
\* C11: each of the four outcome slots is assigned at most once, exactly
\* once in a finished run, and holds a value if and only if its probe
\* returned one (a failed or timed-out probe leaves it absent).
\* ------------------------------------------------------------------------
C11_SlotsWrittenOnce ==
    /\ \A p \in Probes : writes[p] <= 1
    /\ \A p \in Probes : writes[p] = 0 => ~slot[p].some
    /\ \A p \in Probes :
         writes[p] = 1 =>
             /\ slot[p].some <=> st[p] = "value"
             /\ slot[p].some => slot[p] = val[p]
    /\ pc = "done" =>
         \A p \in Probes : writes[p] = 1 /\ ReportField(p) = slot[p]

C11_Witness ==
    /\ pc = "done"
    /\ \A p \in Probes : writes[p] = 1
    /\ slot["dns"].some
    /\ st["tcp"] = "failure" /\ ~slot["tcp"].some
    /\ st["stability"] = "timeout" /\ ~slot["stability"].some

\* ------------------------------------------------------------------------
\* C12: for a snapshot whose resolution outcome is present with no
\* resolved address, analysis produces exactly one Dns issue, an Error, and
\* the score is 50 below that of the same snapshot with an address and a
\* lookup of at most 200ms, whatever the lookup latency is.
\* ------------------------------------------------------------------------
C12_EmptyResolution ==
    (Analyzed /\ slot["dns"].some /\ slot["dns"].val.resolved_ips = <<>>) =>
        LET dnsIssues == IssuesIn(result.out.issues, {"Dns"})
        IN  /\ Len(dnsIssues) = 1
            /\ dnsIssues[1].severity = "Error"
            /\ \A l \in {50, 200} :
                 result.out.score =
                   analyze_results(
                     Some([slot["dns"].val EXCEPT !.resolved_ips = <<Ip1>>,
                                                  !.lookup_time_ms = l]),
                     slot["tcp"], slot["routing"], slot["stability"]).score - 50

C12_Witness ==
    /\ Analyzed
    /\ slot["dns"].some
    /\ slot["dns"].val.resolved_ips = <<>>
    /\ slot["dns"].val.lookup_time_ms > 200
    /\ result.out.score < 0

\* ------------------------------------------------------------------------
\* C13: the status is a total, non-overlapping function of the unclamped
\* score: >= 90 Excellent, 75..89 Good, 50..74 Acceptable, 25..49 Poor,
\* below 25 (negative included) Failed.
\* ------------------------------------------------------------------------
C13_StatusOfScore ==
    Analyzed =>
        LET sc == result.out.score
            status == result.out.overall_status
        IN  /\ status \in {"Excellent", "Good", "Acceptable", "Poor", "Failed"}
            /\ status = "Excellent" <=> sc >= 90
            /\ status = "Good" <=> (sc >= 75 /\ sc <= 89)
            /\ status = "Acceptable" <=> (sc >= 50 /\ sc <= 74)
            /\ status = "Poor" <=> (sc >= 25 /\ sc <= 49)
            /\ status = "Failed" <=> sc < 25

C13_Witness ==
    /\ Analyzed
    /\ result.out.score < 0
    /\ result.out.overall_status = "Failed"

\* ------------------------------------------------------------------------
\* C14: the snapshot of the scenario: resolution with 2 addresses in 50ms,
\* transport with code 200 and a total time of 4000ms (connection-only and
\* secure-channel-only times not above 500ms), no path, no stability.
\* ------------------------------------------------------------------------
C14_Scenario ==
    /\ Analyzed
    /\ slot["dns"].some
    /\ Len(slot["dns"].val.resolved_ips) = 2
    /\ slot["dns"].val.lookup_time_ms = 50
    /\ slot["tcp"].some
    /\ slot["tcp"].val.http_code = 200
    /\ slot["tcp"].val.total_time_ms = 4000
    /\ slot["tcp"].val.connect_time_ms - slot["tcp"].val.dns_time_ms <= 500
    /\ slot["tcp"].val.ssl_time_ms - slot["tcp"].val.connect_time_ms <= 500
    /\ ~slot["routing"].some
    /\ ~slot["stability"].some

\* C14 as stated: the scenario yields exactly one issue, a Transport (Tcp)
\* Warning, a score of 85 and status Good.
C14_OneTransportWarning ==
    C14_Scenario =>
        /\ Len(result.out.issues) = 1
        /\ result.out.issues[1].category = "Tcp"
        /\ result.out.issues[1].severity = "Warning"
        /\ result.out.score = 85
        /\ result.out.overall_status = "Good"

\* C14 amended: the scenario yields exactly one issue, the slow-total-time
\* Warning, whose category is Http; the score is 85 and the status Good.
C14_OneHttpWarning ==
    C14_Scenario =>
        /\ result.out.issues = <<Issue("Http", "Warning", "total_time_slow")>>
        /\ result.out.score = 85
        /\ result.out.overall_status = "Good"

C14_Witness == C14_Scenario /\ Len(result.out.issues) = 1

\* ------------------------------------------------------------------------
\* C15: with a transport outcome whose response code is 0, analysis adds
\* exactly one transport issue, the Tcp Error, and deducts 50; no Tcp, Ssl
\* or Http issue and no deduction comes from the timings, whatever they are.
\* ------------------------------------------------------------------------
C15_NoResponseShortCircuit ==
    (Analyzed /\ slot["tcp"].some /\ slot["tcp"].val.http_code = 0) =>
        LET without == analyze_results(slot["dns"], None, slot["routing"],
                                       slot["stability"])
        IN  /\ IssuesIn(result.out.issues, {"Tcp", "Ssl", "Http"})
                 = <<Issue("Tcp", "Error", "tcp_no_connection")>>
            /\ Len(result.out.issues) = Len(without.issues) + 1
            /\ result.out.score = without.score - 50

C15_Witness ==
    /\ Analyzed
    /\ slot["tcp"].some
    /\ slot["tcp"].val.http_code = 0
    /\ slot["tcp"].val.connect_time_ms - slot["tcp"].val.dns_time_ms > 500
    /\ slot["tcp"].val.ssl_time_ms - slot["tcp"].val.connect_time_ms > 500
    /\ slot["tcp"].val.total_time_ms > 3000

\* ------------------------------------------------------------------------
\* C17: with no issue the only general recommendation is the positive one;
\* otherwise the general recommendations are: the Dns one iff a Dns issue
\* exists, the connectivity one iff a Tcp or Stability issue exists, the
\* escalation one iff the score is below 50, each at most once.
\* ------------------------------------------------------------------------
C17_Recommendations ==
    Analyzed =>
        LET issues == result.out.issues
            recs == result.out.recommendations
            NotCdn(r) == r # RecCdn
            general == SelectSeq(recs, NotCdn)
            Has(c) == \E k \in 1..Len(issues) : issues[k].category = c
            B(b) == IF b THEN 1 ELSE 0
        IN  IF issues = <<>>
            THEN general = <<RecAllGood>>
            ELSE /\ Len(general) <= 3
                 /\ \A k \in 1..Len(general) :
                      general[k] \in {RecDns, RecWifi, RecEscalate}
                 /\ Count(RecDns, recs) = B(Has("Dns"))
                 /\ Count(RecWifi, recs) = B(Has("Tcp") \/ Has("Stability"))
                 /\ Count(RecEscalate, recs) = B(result.out.score < 50)

C17_Witness ==
    /\ Analyzed
    /\ Len(IssuesIn(result.out.issues, {"Stability"})) = 2
    /\ Len(IssuesIn(result.out.issues, {"Tcp"})) = 1
    /\ Count(RecWifi, result.out.recommendations) = 1
    /\ result.out.score = 50

\* ------------------------------------------------------------------------
\* C18: a stability result with zero successful samples has minimum,
\* average, maximum and jitter all 0 and success rate 0 (the average, a
\* division by the number of successful samples, is not computed then).
\* ------------------------------------------------------------------------
C18_ZeroSuccessfulSamples ==
    (val["stability"].some /\ val["stability"].val.successful_tests = 0) =>
        LET r == val["stability"].val
        IN  /\ r.min_time_ms = 0
            /\ r.avg_time_ms = 0
            /\ r.max_time_ms = 0
            /\ r.jitter_ms = 0
            /\ r.success_rate = 0

C18_Witness ==
    /\ st["stability"] = "value"
    /\ val["stability"].some
    /\ val["stability"].val.successful_tests = 0
    /\ stab.i = NUM_TESTS
    /\ stab.times = <<>>

\* ------------------------------------------------------------------------
\* C19: the terminal events of the tcp, ssl and http steps appear only
\* after the one transport probe has settled and all come from its
\* outcome: without a transport result all three steps end with Error;
\* ssl and http have no probe of their own.
\* ------------------------------------------------------------------------
C19_TransportViews ==
    /\ {"ssl", "http"} \cap DOMAIN st = {}
    /\ \A k \in 1..Len(events) :
         (events[k].step \in {"tcp", "ssl", "http"} /\ events[k].status \in Terminal)
            => st["tcp"] \in Settled
    /\ pc = "done" =>
         IF st["tcp"] = "value"
         THEN /\ LastStatus("tcp") = TcpStatus(val["tcp"].val)
              /\ LastStatus("ssl") = SslStatus(val["tcp"].val)
              /\ LastStatus("http") = HttpStatus(val["tcp"].val)
         ELSE \A s \in {"tcp", "ssl", "http"} : LastStatus(s) = "Error"

C19_Witness ==
    /\ pc = "done"
    /\ st["tcp"] = "failure"
    /\ \A s \in {"tcp", "ssl", "http"} : LastStatus(s) = "Error"

\* ------------------------------------------------------------------------
\* C20 as stated: the events of every step are Pending, then Running, then
\* exactly one terminal status, and nothing after it.
\* ------------------------------------------------------------------------
IsPrefix(a, b) == Len(a) <= Len(b) /\ SubSeq(b, 1, Len(a)) = a

\* ss follows lead and at most one terminal status after it
FollowsLead(ss, lead) ==
    \/ IsPrefix(ss, lead)
    \/ /\ Len(ss) = Len(lead) + 1
       /\ IsPrefix(lead, ss)
       /\ ss[Len(ss)] \in Terminal

C20_PendingRunningTerminal ==
    \A s \in Steps :
        LET ss == StepStatuses(events, s)
        IN  /\ FollowsLead(ss, <<"Pending", "Running">>)
            /\ pc = "done" => Len(ss) = 3

\* C20 amended: tcp, routing and stability get Pending, Running and one
\* terminal status; dns gets Running and one terminal status (no Pending);
\* ssl and http get Pending and one terminal status (no Running); no step
\* gets a second terminal status or anything after its terminal status.
LeadOf(s) ==
    IF s = "dns" THEN <<"Running">>
    ELSE IF s \in {"ssl", "http"} THEN <<"Pending">>
    ELSE <<"Pending", "Running">>

C20_StepEventOrder ==
    \A s \in Steps :
        LET ss == StepStatuses(events, s)
        IN  /\ FollowsLead(ss, LeadOf(s))
            /\ pc = "done" => (Len(ss) = Len(LeadOf(s)) + 1 /\ ss[Len(ss)] \in Terminal)

C20_Witness ==
    /\ pc = "done"
    /\ StepStatuses(events, "dns") = <<"Running", "Success">>
    /\ StepStatuses(events, "http") = <<"Pending", "Warning">>
    /\ StepStatuses(events, "tcp") = <<"Pending", "Running", "Success">>
    /\ StepStatuses(events, "stability") = <<"Pending", "Running", "Warning">>

\* ------------------------------------------------------------------------
\* Helpers for the transport rules
\* ------------------------------------------------------------------------
B2N(b) == IF b THEN 1 ELSE 0

\* the issues of a list with the given title
Titled(issues, title) ==
    LET Is(i) == i.title = title IN SelectSeq(issues, Is)

\* a transport outcome is in the snapshot and its response code is not 0
Responded == Analyzed /\ slot["tcp"].some /\ slot["tcp"].val.http_code # 0

\* the analysis of the same snapshot with another transport outcome
WithTcp(t) ==
    analyze_results(slot["dns"], Some(t), slot["routing"], slot["stability"])

\* ------------------------------------------------------------------------
\* C21: with a non-zero response code, a connection-only time above 500ms
\* adds one Warning and deducts 15, a secure-channel-only time above 500ms
\* adds one Warning and deducts 10; at 500ms or below nothing is added or
\* deducted; each check is decided by its own duration alone.
\* ------------------------------------------------------------------------
C21_PhaseExclusiveTimes ==
    Responded =>
        LET t == slot["tcp"].val
            connect_only == t.connect_time_ms - t.dns_time_ms
            ssl_only == t.ssl_time_ms - t.connect_time_ms
            quick == WithTcp([t EXCEPT !.connect_time_ms = t.dns_time_ms,
                                       !.ssl_time_ms = t.dns_time_ms])
            tcpIssues == IssuesIn(result.out.issues, {"Tcp"})
            sslIssues == IssuesIn(result.out.issues, {"Ssl"})
        IN  /\ Len(tcpIssues) = B2N(connect_only > 500)
            /\ Len(sslIssues) = B2N(ssl_only > 500)
            /\ \A k \in 1..Len(tcpIssues) : tcpIssues[k].severity = "Warning"
            /\ \A k \in 1..Len(sslIssues) : sslIssues[k].severity = "Warning"
            /\ Len(result.out.issues) =
                 Len(quick.issues) + B2N(connect_only > 500) + B2N(ssl_only > 500)
            /\ result.out.score =
                 quick.score - 15 * B2N(connect_only > 500) - 10 * B2N(ssl_only > 500)

C21_Witness ==
    /\ Responded
    /\ slot["tcp"].val.connect_time_ms - slot["tcp"].val.dns_time_ms = 500
    /\ slot["tcp"].val.ssl_time_ms - slot["tcp"].val.connect_time_ms = 501
    /\ IssuesIn(result.out.issues, {"Tcp"}) = <<>>
    /\ Len(IssuesIn(result.out.issues, {"Ssl"})) = 1

\* ------------------------------------------------------------------------
\* C22: with a non-zero response code the total-time rule has three
\* exclusive cases: above 3000ms one Warning and 15 deducted; above 1000ms
\* up to 3000ms 5 deducted and no issue; up to 1000ms nothing.
\* ------------------------------------------------------------------------
C22_TotalTimeRule ==
    Responded =>
        LET t == slot["tcp"].val
            quick == WithTcp([t EXCEPT !.total_time_ms = 1000])
            slow == Titled(result.out.issues, "total_time_slow")
            minus == IF t.total_time_ms > 3000 THEN 15
                     ELSE IF t.total_time_ms > 1000 THEN 5 ELSE 0
        IN  /\ Len(slow) = B2N(t.total_time_ms > 3000)
            /\ \A k \in 1..Len(slow) : slow[k].severity = "Warning"
            /\ Len(result.out.issues) = Len(quick.issues) + B2N(t.total_time_ms > 3000)
            /\ result.out.score = quick.score - minus

\* a score below 100 with no issue and the no-problems recommendation
C22_Witness ==
    /\ Responded
    /\ slot["tcp"].val.total_time_ms = 3000
    /\ result.out.issues = <<>>
    /\ result.out.score = 95
    /\ InSeq(RecAllGood, result.out.recommendations)

\* ------------------------------------------------------------------------
\* C23: with a non-zero response code, a code in 400..499 adds one Warning
\* and deducts nothing, a code of 500 or more adds one Error and deducts
\* 20, a code in 1..399 adds no response-code issue and deducts nothing.
\* ------------------------------------------------------------------------
C23_ResponseCodeRule ==
    Responded =>
        LET t == slot["tcp"].val
            ok == WithTcp([t EXCEPT !.http_code = 200])
            e4 == Titled(result.out.issues, "http_error_4xx")
            e5 == Titled(result.out.issues, "http_error_5xx")
            is4 == t.http_code >= 400 /\ t.http_code <= 499
            is5 == t.http_code >= 500
        IN  /\ Len(e4) = B2N(is4)
            /\ Len(e5) = B2N(is5)
            /\ \A k \in 1..Len(e4) : e4[k].severity = "Warning"
            /\ \A k \in 1..Len(e5) : e5[k].severity = "Error"
            /\ Len(result.out.issues) = Len(ok.issues) + B2N(is4) + B2N(is5)
            /\ result.out.score = ok.score - 20 * B2N(is5)

C23_Witness ==
    /\ Responded
    /\ slot["tcp"].val.http_code = 499
    /\ Len(Titled(result.out.issues, "http_error_4xx")) = 1
    /\ result.out.score = 100

\* ------------------------------------------------------------------------
\* C24: with a path outcome, the unresponsive-hops Warning is added, with
\* no deduction, exactly when the "*" hops are more than 30% of
\* max(1, number of hops), so never for an empty hop list; the many-hops
\* Info is added and 5 deducted exactly when total_hops is above 20; the
\* two rules do not depend on each other.
\* ------------------------------------------------------------------------
C24_PathRules ==
    (Analyzed /\ slot["routing"].some) =>
        LET r == slot["routing"].val
            failed == Cardinality({k \in 1..Len(r.hops) : r.hops[k].ip_address = "*"})
            den == IF Len(r.hops) = 0 THEN 1 ELSE Len(r.hops)
            above30 == failed * 100 > 30 * den
            without == analyze_results(slot["dns"], slot["tcp"], None, slot["stability"])
            silent == Titled(result.out.issues, "hops_unresponsive")
            many == Titled(result.out.issues, "many_hops")
        IN  /\ Len(silent) = B2N(above30)
            /\ Len(many) = B2N(r.total_hops > 20)
            /\ \A k \in 1..Len(silent) : silent[k].severity = "Warning"
            /\ \A k \in 1..Len(many) : many[k].severity = "Info"
            /\ r.hops = <<>> => silent = <<>>
            /\ Len(result.out.issues) = Len(without.issues) + Len(silent) + Len(many)
            /\ result.out.score = without.score - 5 * B2N(r.total_hops > 20)

\* 3 of 10 hops silent (exactly 30%) and a hop count of 21
C24_Witness ==
    /\ Analyzed
    /\ slot["routing"].some
    /\ Len(slot["routing"].val.hops) = 10
    /\ FailedHops(slot["routing"].val.hops) = 3
    /\ slot["routing"].val.total_hops = 21
    /\ Titled(result.out.issues, "hops_unresponsive") = <<>>
    /\ Len(Titled(result.out.issues, "many_hops")) = 1

\* ------------------------------------------------------------------------
\* C25: with a stability outcome, a success rate below 80 adds exactly one
\* Error and deducts 30, a rate from 80 to below 100 adds exactly one
\* Warning and deducts 10, a rate of 100 adds neither; a jitter above 100ms
\* adds one Warning and deducts 5 whatever the rate; there is never more
\* than one success-rate issue.
\* ------------------------------------------------------------------------
C25_StabilityRules ==
    (Analyzed /\ slot["stability"].some) =>
        LET sb == slot["stability"].val
            without == analyze_results(slot["dns"], slot["tcp"], slot["routing"], None)
            unstable == Titled(result.out.issues, "connection_unstable")
            loss == Titled(result.out.issues, "packet_loss")
            jitter == Titled(result.out.issues, "jitter_high")
            rateMinus == IF sb.success_rate < 80 THEN 30
                         ELSE IF sb.success_rate < 100 THEN 10 ELSE 0
        IN  /\ Len(unstable) = B2N(sb.success_rate < 80)
            /\ Len(loss) = B2N(sb.success_rate >= 80 /\ sb.success_rate < 100)
            /\ Len(jitter) = B2N(sb.jitter_ms > 100)
            /\ \A k \in 1..Len(unstable) : unstable[k].severity = "Error"
            /\ \A k \in 1..Len(loss) : loss[k].severity = "Warning"
            /\ \A k \in 1..Len(jitter) : jitter[k].severity = "Warning"
            /\ Len(unstable) + Len(loss) <= 1
            /\ result.out.issues = without.issues \o unstable \o loss \o jitter
            /\ result.out.score = without.score - rateMinus - 5 * B2N(sb.jitter_ms > 100)

C25_Witness ==
    /\ Analyzed
    /\ slot["stability"].some
    /\ slot["stability"].val.success_rate = 70
    /\ slot["stability"].val.jitter_ms = 101
    /\ Len(IssuesIn(result.out.issues, {"Stability"})) = 2

\* ------------------------------------------------------------------------
\* C26: a negative phase-exclusive duration of the reported transport
\* outcome is never used or shown as a normal duration: a negative
\* secure-channel-only time is marked by an Ssl issue of the analysis or is
\* not printed as the duration of the ssl progress message; a negative
\* connection-only time (which no progress message prints) is marked by a
\* Tcp issue of the analysis.
\* ------------------------------------------------------------------------
C26_NegativeDurationFlagged ==
    (pc = "done" /\ result.report.tcp.some) =>
        LET t == result.report.tcp.val
            connect_only == t.connect_time_ms - t.dns_time_ms
            ssl_only == t.ssl_time_ms - t.connect_time_ms
            shownNegative ==
                \E k \in 1..Len(events) :
                    /\ events[k].step = "ssl"
                    /\ "shown_ms" \in DOMAIN events[k]
                    /\ events[k].shown_ms < 0
        IN  /\ ssl_only < 0 =>
                 \/ HasCategory(result.report.issues, "Ssl")
                 \/ ~shownNegative
            /\ connect_only < 0 => HasCategory(result.report.issues, "Tcp")

\* ------------------------------------------------------------------------
\* C27: once resolution has settled, the path probe is set up whatever the
\* outcome was, and the target address it is given is the first resolved
\* address if resolution returned a non-empty list and the empty string
\* otherwise (failure, timeout, empty list); a path outcome carries that
\* address.
\* ------------------------------------------------------------------------
C27_PathTargetAddress ==
    st["dns"] \in Settled =>
        LET ips == IF st["dns"] = "value" THEN val["dns"].val.resolved_ips ELSE <<>>
            address == IF ips # <<>> THEN ips[1] ELSE ""
        IN  /\ pc \in {"join", "done"}
            /\ st["routing"] # "idle"
            /\ target_ip = address
            /\ val["routing"].some => val["routing"].val.target_ip = address
            /\ pc = "done" => st["routing"] \in Settled

C27_Witness ==
    /\ pc = "done"
    /\ st["dns"] = "failure"
    /\ st["routing"] = "value"
    /\ val["routing"].val.target_ip = ""

\* ------------------------------------------------------------------------
\* C28: when a run has returned, a step whose terminal progress status is
\* Success has no Warning or Error issue about its measurement in the
\* report: tcp: no-connection, slow connect; ssl: slow handshake; http:
\* response code, total time; routing: unresponsive hops; stability:
\* success rate; dns: failed or slow lookup.
\* ------------------------------------------------------------------------
IssueTitlesOf(step) ==
    CASE step = "dns" -> {"dns_unresolved", "dns_slow"}
      [] step = "tcp" -> {"tcp_no_connection", "tcp_connect_slow"}
      [] step = "ssl" -> {"ssl_handshake_slow"}
      [] step = "http" -> {"http_error_4xx", "http_error_5xx", "total_time_slow"}
      [] step = "routing" -> {"hops_unresponsive"}
      [] step = "stability" -> {"connection_unstable", "packet_loss"}

C28_ProgressAgreesWithAnalysis ==
    pc = "done" =>
        \A s \in Steps :
            LastStatus(s) = "Success" =>
                \A k \in 1..Len(result.report.issues) :
                    LET i == result.report.issues[k]
                    IN  ~(i.title \in IssueTitlesOf(s) /\ i.severity \in {"Warning", "Error"})

\* ------------------------------------------------------------------------
\* C29: for every snapshot, a status of Poor or Failed (score below 50)
\* comes with a non-empty issue list and the escalation recommendation;
\* with Excellent, Good or Acceptable the escalation recommendation is
\* absent.
\* ------------------------------------------------------------------------
C29_EscalationIffPoorOrFailed ==
    Analyzed =>
        LET out == result.out
        IN  /\ out.overall_status \in {"Poor", "Failed"} =>
                 /\ out.score < 50
                 /\ out.issues # <<>>
                 /\ InSeq(RecEscalate, out.recommendations)
            /\ out.overall_status \in {"Excellent", "Good", "Acceptable"} =>
                 ~InSeq(RecEscalate, out.recommendations)

C29_Witness ==
    /\ Analyzed
    /\ result.out.overall_status = "Poor"
    /\ result.out.score = 45
    /\ InSeq(RecEscalate, result.out.recommendations)
    /\ ~InSeq(RecDns, result.out.recommendations)

\* ------------------------------------------------------------------------
\* C30: for every target whose hostname extraction succeeds, the URL given
\* to the transport probe and stored in the report begins with http:// or
\* https:// and its host is the extracted hostname that the resolution,
\* path and stability probes use.
\* ------------------------------------------------------------------------
C30_UrlNamesTheHostname ==
    pc \in {"dns", "join", "done"} =>
        /\ StartsWith(url, HttpScheme) \/ StartsWith(url, HttpsScheme)
        /\ UrlHost(url) = domain
        /\ pc = "done" => result.report.target_url = url

=============================================================================
